---- MODULE Spec2Model ----
(***************************************************************************)
(* Animated backgrounds of the page: the canvas "topology" effect          *)
(* (src/topology.js), the flow-field particle background                   *)
(* (src/unnamed/part_000, class WebGLBackground) and the torus background  *)
(* (src/webgl.js, class TorusBackground).                                  *)
(*                                                                         *)
(* Spec      : lifecycle of one Topology instance and the host's           *)
(*             requestAnimationFrame queue.                                *)
(* SpecGL    : construction and life of a WebGL instance, on hosts with    *)
(*             and without a context, with failing and succeeding shader   *)
(*             stages, with either style of WebGL binding.                 *)
(* SpecVel   : the speed multiplier under ticks and scroll/pointer events. *)
(* SpecDecay : the speed multiplier under ticks with still inputs.         *)
(* SpecPart  : one particle under updateParticles().                       *)
(* SpecFlow  : getFlowAt() over the band of positions.                     *)
(* SpecNet   : drawConnections() over the points of a Topology.            *)
(* SpecClock : two runs of a page under different frame delays.            *)
(* SpecAll   : a page with any one of the three effects.                   *)
(* SpecMesh  : createTorusGeometry(), round by round.                      *)
(* SpecTraffic : one traffic particle under updateTrafficParticles().      *)
(***************************************************************************)
EXTENDS Integers, Sequences, FiniteSets, TLC

VARIABLES
    topology,   \* the fields of the Topology instance
    host,       \* the host: pending animation-frame callbacks, next handle, DOM
    lastOp,     \* the operation that produced the current state
    drew,       \* the last operation cleared / drew on the canvas
    threw,      \* the last operation ended with an uncaught exception
    wasRunning, \* topology.isRunning when the last operation began
    bg,         \* the fields of the WebGLBackground / TorusBackground instance
    page,       \* the page hosting bg: window, GL implementation, console, callbacks
    particle,   \* one element of WebGLBackground.particles
    lookup,     \* the last getFlowAt() call: its arguments and what it returned
    net,        \* Topology.points as positions, and the lines stroked in this frame
    runs,       \* two runs of a page over the same ticks, each with its own clock
    mesh,       \* createTorusGeometry(): its loop counters and what it has built
    traffic     \* one element of TorusBackground.trafficParticles

vars == <<topology, host, lastOp, drew, threw, wasRunning, bg, page, particle, lookup,
          net, runs, mesh, traffic>>

\* ---------------------------------------------------------------- bounds
TrafficMaxTicks == 2   \* updateTrafficParticles() calls SpecTraffic follows
ClockMaxTicks == 4     \* frames SpecClock follows
MaxPoints == 3         \* points of the Topology that SpecNet follows
MaxRafId == 6          \* handles the host gives out before the model stops scheduling
MaxTicks == 3          \* animate() calls of a WebGL instance SpecGL follows
VelMaxTicks == 4       \* animate() calls SpecVel follows
DecayTicks == 100      \* animate() calls SpecDecay follows
PartMaxTicks == 26     \* updateParticles() calls SpecPart follows
PosSteps == 20         \* positions per unit length that SpecFlow looks up
Unit == 100000           \* fixed-point resolution: the integer n stands for n / Unit

\* ------------------------------------------------------- program constants
Null == 0              \* this.animationId = null (handles are non-zero)
spacing == 120         \* defaults.spacing
maxDistance == 150     \* defaults.maxDistance
segments == 64         \* this.segments
tubes == 32            \* this.tubes
TwoPi == 628319        \* Math.PI * 2, in units

Widths == {320, 1024}         \* window.innerWidth
Seeds == {0, 3}               \* runs of Math.random() in createTrafficParticles
RectSizes == {0, 300, 500}    \* widths / heights getBoundingClientRect() may report
DprSet == {1, 2, 3}           \* window.devicePixelRatio values
Draws == {0, 1}               \* runs of Math.random() in createPoints

\* Math.ceil(a / b) for a >= 0, b > 0
Ceil(a, b) == (a + b - 1) \div b

\* ------------------------------------------------------- src/topology.js

\* An outcome of running a method: the instance, the host, and what happened.
Outcome(t, h, d, x) == [t |-> t, h |-> h, drew |-> d, threw |-> x]

\* createPoints() that pushes onto the points it already has
Topology_createPoints_Accumulate(t, draws) ==
    LET cols == Ceil(t.width, spacing) + 1
        rows == Ceil(t.height, spacing) + 1
    IN  [t EXCEPT !.points = @ + cols * rows, !.draws = draws]

\* Topology_createPoints(): this.points = [] and one Point per grid node.
\* points is the length of this.points; draws is the run of Math.random()
\* that gave the points their jitter, phase, amplitude and frequency.
Topology_createPoints(t, draws) ==
    LET cols == Ceil(t.width, spacing) + 1
        rows == Ceil(t.height, spacing) + 1
    IN  [t EXCEPT !.points = cols * rows, !.draws = draws]

\* dx * dx + dy * dy of two points
DistSq(p1, p2) ==
    (p2[1] - p1[1]) * (p2[1] - p1[1]) + (p2[2] - p1[2]) * (p2[2] - p1[2])

\* the inner loop of drawConnections(): the lines stroked from point i to the
\* points from j on (points are numbered from 1)
RECURSIVE ConnectFrom(_, _, _)
ConnectFrom(points, i, j) ==
    IF j > Len(points) THEN <<>>
    ELSE (IF DistSq(points[i], points[j]) < maxDistance * maxDistance
          THEN << <<i, j>> >> ELSE <<>>)
         \o ConnectFrom(points, i, j + 1)

\* drawConnections() whose inner loop starts at the first point
RECURSIVE drawConnections_FromFirst(_, _)
drawConnections_FromFirst(points, i) ==
    IF i > Len(points) THEN <<>>
    ELSE ConnectFrom(points, i, 1) \o drawConnections_FromFirst(points, i + 1)

\* Topology.drawConnections(): the outer loop from point i on, the inner
\* loop from i + 1; the result lists the lines in the order they are stroked
RECURSIVE drawConnections(_, _)
drawConnections(points, i) ==
    IF i > Len(points) THEN <<>>
    ELSE ConnectFrom(points, i, i + 1) \o drawConnections(points, i + 1)

\* animate() that draws but never asks for the next frame
Topology_animate_NoReschedule(t, h) ==
    IF ~t.isRunning THEN Outcome(t, h, FALSE, FALSE)
    ELSE IF ~t.ctx THEN Outcome(t, h, FALSE, TRUE)
    ELSE Outcome(t, h, TRUE, FALSE)

\* Topology_animate(): returns at once when not running; otherwise clears, updates and
\* draws, then asks the host for the next frame. this.ctx is null after
\* Topology_destroy(), so the first canvas access throws a TypeError.
Topology_animate(t, h) ==
    IF ~t.isRunning THEN Outcome(t, h, FALSE, FALSE)
    ELSE IF ~t.ctx THEN Outcome(t, h, FALSE, TRUE)
    ELSE Outcome([t EXCEPT !.animationId = h.rafNext],
                 [h EXCEPT !.rafQueue = @ \cup {h.rafNext}, !.rafNext = @ + 1],
                 TRUE, FALSE)

\* Topology_start()
Topology_start(t, h) ==
    IF t.isRunning THEN Outcome(t, h, FALSE, FALSE)
    ELSE Topology_animate([t EXCEPT !.isRunning = TRUE], h)

\* stop() that clears the flag and leaves the scheduled callback alone
Topology_stop_KeepsCallback(t, h) ==
    Outcome([t EXCEPT !.isRunning = FALSE], h, FALSE, FALSE)

\* Topology_stop()
Topology_stop(t, h) ==
    IF t.animationId # Null
    THEN Outcome([t EXCEPT !.isRunning = FALSE, !.animationId = Null],
                 [h EXCEPT !.rafQueue = @ \ {t.animationId}], FALSE, FALSE)
    ELSE Outcome([t EXCEPT !.isRunning = FALSE], h, FALSE, FALSE)

\* Topology_resize(): reads the element's rectangle and the device pixel ratio, sizes
\* the canvas and recreates the points. this.canvas is null after Topology_destroy():
\* the assignment to this.canvas.width throws after width/height were set.
Topology_resize(t, h, draws) ==
    LET w == h.rectWidth
        ht == h.rectHeight
        dpr == h.devicePixelRatio
        t1 == [t EXCEPT !.width = w, !.height = ht]
    IN  IF ~t.canvas THEN Outcome(t1, h, FALSE, TRUE)
        ELSE Outcome(Topology_createPoints([t1 EXCEPT !.canvasWidth = w * dpr,
                                             !.canvasHeight = ht * dpr], draws),
                     h, FALSE, FALSE)

\* Topology_destroy()
Topology_destroy(t, h) ==
    LET s == Topology_stop(t, h)
    IN  Outcome([s.t EXCEPT !.canvas = FALSE, !.ctx = FALSE, !.points = 0, !.draws = 0],
                [s.h EXCEPT !.attached = FALSE], FALSE, FALSE)

\* new Topology(options) with an element that exists: the constructor and
\* init() (createElement, appendChild, resize, createPoints, start).
NewTopology(w, ht, dpr, draws) ==
    LET t0 == [isRunning |-> FALSE, animationId |-> Null, canvas |-> TRUE,
               ctx |-> TRUE, width |-> 0, height |-> 0, canvasWidth |-> 0,
               canvasHeight |-> 0, points |-> 0, draws |-> 0]
        h0 == [rafQueue |-> {}, rafNext |-> 1, attached |-> TRUE, created |-> TRUE,
               again |-> FALSE,
               rectWidth |-> w, rectHeight |-> ht, devicePixelRatio |-> dpr]
        r  == Topology_resize(t0, h0, draws)
    IN  Topology_start(Topology_createPoints(r.t, draws), r.h)

\* ---------------------------------------- src/unnamed/part_000, src/webgl.js
\* Real-valued fields (mouse, velocities, multipliers, positions) are held in
\* fixed point: the integer n stands for n / Unit, and every product with a
\* rate is rounded to the nearest unit.
Round(n, d) == (2 * n + d) \div (2 * d)
Abs(n) == IF n < 0 THEN -n ELSE n
Min(a, b) == IF a < b THEN a ELSE b
Half == Unit \div 2

Variants == {"WebGLBackground", "TorusBackground"}
EventNames == {"resize", "mousemove", "mouseleave", "scroll", "touchmove"}

GLOut(b, p, x) == [b |-> b, p |-> p, threw |-> x]

\* console.error / console.warn
LogError(p, failed) == IF failed THEN [p EXCEPT !.errors = @ + 1] ELSE p
LogWarn(p) == [p EXCEPT !.warnings = @ + 1]

\* isMobile()
isMobile(p) == p.innerWidth < 768

\* resize() that chooses the particle count anew for the new width
GL_resize_Recount(b, p) ==
    LET dpr == Min(p.devicePixelRatio, 2)
    IN  [b EXCEPT !.canvasWidth = p.innerWidth * dpr,
                  !.canvasHeight = p.innerHeight * dpr,
                  !.particleCount =
                      IF b.variant = "WebGLBackground"
                      THEN (IF isMobile(p) THEN 100 ELSE 200)
                      ELSE (IF isMobile(p) THEN 80 ELSE 150)]

\* resize() that scales the surface it already has
GL_resize_Rescale(b, p) ==
    LET dpr == Min(p.devicePixelRatio, 2)
    IN  [b EXCEPT !.canvasWidth = (IF @ = 0 THEN p.innerWidth ELSE @) * dpr,
                  !.canvasHeight = (IF @ = 0 THEN p.innerHeight ELSE @) * dpr]

\* resize() of both classes (TorusBackground also stores the aspect ratio)
GL_resize(b, p) ==
    LET dpr == Min(p.devicePixelRatio, 2)
    IN  [b EXCEPT !.canvasWidth = p.innerWidth * dpr,
                  !.canvasHeight = p.innerHeight * dpr]

\* compileShader(type, source): logs and returns null when compilation fails
compileShader(p, ok) == LogError(p, ~ok)

\* WebGLBackground.createShaders(). Both stages are compiled, then attached:
\* attachShader(program, null) raises a TypeError on a host whose WebGL
\* binding takes non-nullable objects and only records INVALID_VALUE on one
\* that takes nullable ones. A program that does not link is logged and
\* this.locations stays undefined.
WebGL_createShaders(b, p) ==
    LET p1 == compileShader(compileShader(p, p.vs), p.fs)
    IN  IF p.strict /\ ~(p.vs /\ p.fs) THEN GLOut(b, p1, TRUE)
        ELSE IF ~(p.vs /\ p.fs /\ p.link) THEN GLOut(b, LogError(p1, TRUE), FALSE)
        ELSE GLOut([b EXCEPT !.locations = TRUE], p1, FALSE)

\* WebGLBackground.createParticles(): pushes particleCount particles
WebGL_createParticles(b) == [b EXCEPT !.particles = @ + b.particleCount]

\* trailLength of the i-th traffic particle, 3 + Math.floor(Math.random() * 8),
\* for the run of Math.random() the page's seed stands for
TrailLengths == 3 .. 10
trailLength(seed, i) == 3 + ((i * seed) % 8)

\* TorusBackground.createTrafficParticles(): a fresh array of particleCount
\* particles; trails[t] is the number of them whose trailLength is t
Torus_createTrafficParticles(b, p) ==
    [b EXCEPT !.particles = b.particleCount,
              !.trails = [t \in TrailLengths |->
                            Cardinality({i \in 1 .. b.particleCount :
                                            trailLength(p.seed, i) = t})]]

\* TorusBackground.createProgram(vs, fs): the linked program, or null
createProgram(p, vsOk, fsOk, linkOk) ==
    LET p1 == compileShader(compileShader(p, vsOk), fsOk)
    IN  IF p.strict /\ ~(vsOk /\ fsOk) THEN [p |-> p1, program |-> FALSE, threw |-> TRUE]
        ELSE IF ~(vsOk /\ fsOk /\ linkOk)
             THEN [p |-> LogError(p1, TRUE), program |-> FALSE, threw |-> FALSE]
        ELSE [p |-> p1, program |-> TRUE, threw |-> FALSE]

\* TorusBackground.createShaders(): each program is created and its locations
\* are queried at once; getAttribLocation(null, ..) raises a TypeError on a
\* host with non-nullable bindings and returns -1 on one with nullable ones.
Torus_createShaders(b, p) ==
    LET r1 == createProgram(p, p.vs, p.fs, p.link)
        b1 == [b EXCEPT !.torusProgram = r1.program]
    IN  IF r1.threw THEN GLOut(b, r1.p, TRUE)
        ELSE IF ~r1.program /\ p.strict THEN GLOut(b1, r1.p, TRUE)
        ELSE LET r2 == createProgram(r1.p, p.vs2, p.fs2, p.link2)
                 b2 == [b1 EXCEPT !.particleProgram = r2.program]
             IN  IF r2.threw THEN GLOut(b1, r2.p, TRUE)
                 ELSE IF ~r2.program /\ p.strict THEN GLOut(b2, r2.p, TRUE)
                 ELSE GLOut(b2, r2.p, FALSE)

\* bindEvents(): five listeners
bindEvents(p) == [p EXCEPT !.listeners = @ \cup EventNames]

\* updateVelocity() without the Math.min(.., 4) cap
updateVelocity_NoCap(b) ==
    LET scrollVelocity == Round(Abs(b.scrollY - b.lastScrollY) * Unit, 10)
        mouseVelocity == (Abs(b.mouse.x - b.lastMouseX) + Abs(b.mouse.y - b.lastMouseY)) * 5
        target == Unit + (scrollVelocity + mouseVelocity) * 3
    IN  [b EXCEPT !.scrollVelocity = scrollVelocity,
                  !.lastScrollY = b.scrollY,
                  !.mouseVelocity = mouseVelocity,
                  !.lastMouseX = b.mouse.x,
                  !.lastMouseY = b.mouse.y,
                  !.speedMultiplier = @ + Round((target - @) * 8, 100),
                  !.targetSpeedMultiplier = target + Round((Unit - target) * 2, 100)]

\* updateVelocity() whose live multiplier approaches the target at rate 0.02
updateVelocity_SlowApproach(b) ==
    LET scrollVelocity == Round(Abs(b.scrollY - b.lastScrollY) * Unit, 10)
        mouseVelocity == (Abs(b.mouse.x - b.lastMouseX) + Abs(b.mouse.y - b.lastMouseY)) * 5
        target == Unit + Min((scrollVelocity + mouseVelocity) * 3, 4 * Unit)
    IN  [b EXCEPT !.scrollVelocity = scrollVelocity,
                  !.lastScrollY = b.scrollY,
                  !.mouseVelocity = mouseVelocity,
                  !.lastMouseX = b.mouse.x,
                  !.lastMouseY = b.mouse.y,
                  !.speedMultiplier = @ + Round((target - @) * 2, 100),
                  !.targetSpeedMultiplier = target + Round((Unit - target) * 2, 100)]

\* updateVelocity() of both classes
updateVelocity(b) ==
    LET scrollDelta == Abs(b.scrollY - b.lastScrollY)
        scrollVelocity == Round(scrollDelta * Unit, 10)
        mouseDeltaX == Abs(b.mouse.x - b.lastMouseX)
        mouseDeltaY == Abs(b.mouse.y - b.lastMouseY)
        mouseVelocity == (mouseDeltaX + mouseDeltaY) * 5
        combinedVelocity == scrollVelocity + mouseVelocity
        target == Unit + Min(combinedVelocity * 3, 4 * Unit)
        speed == b.speedMultiplier + Round((target - b.speedMultiplier) * 8, 100)
    IN  [b EXCEPT !.scrollVelocity = scrollVelocity,
                  !.lastScrollY = b.scrollY,
                  !.mouseVelocity = mouseVelocity,
                  !.lastMouseX = b.mouse.x,
                  !.lastMouseY = b.mouse.y,
                  !.speedMultiplier = speed,
                  !.targetSpeedMultiplier = target + Round((Unit - target) * 2, 100)]

\* animate() that leaves the time counter alone
Advance_NoCount(b) ==
    [b EXCEPT !.mouse = [x |-> @.x + Round((b.targetMouse.x - @.x) * 8, 100),
                         y |-> @.y + Round((b.targetMouse.y - @.y) * 8, 100)]]

\* the first statements of animate(): time++ and the mouse smoothing
Advance(b) ==
    [b EXCEPT !.time = @ + 1,
              !.mouse = [x |-> @.x + Round((b.targetMouse.x - @.x) * 8, 100),
                         y |-> @.y + Round((b.targetMouse.y - @.y) * 8, 100)]]

\* b.steps lists what the animate() call under way has done so far
Did(b, names) == [b EXCEPT !.steps = @ \o names]

\* WebGLBackground.render(): clears, then reads this.locations (a TypeError
\* when it is undefined), uploads the arrays and issues one drawArrays
WebGL_render(b, p) ==
    IF ~b.locations THEN GLOut(Did(b, <<"clear">>), p, TRUE)
    ELSE GLOut(Did(b, <<"clear", "drawArrays">>), [p EXCEPT !.drawCalls = @ + 1,
                            !.upload = [positions |-> 2 * b.particles,
                                        sizes |-> b.particles,
                                        alphas |-> b.particles,
                                        hues |-> b.particles,
                                        count |-> b.particleCount]],
               FALSE)

\* the sum of f[t] over the trail lengths from t up
RECURSIVE SumFrom(_, _)
SumFrom(t, f) == IF t \notin TrailLengths THEN 0 ELSE f[t] + SumFrom(t + 1, f)

\* pushes of one particle into an array that takes n entries per sample: the
\* head, then the loop for (t = 1; t < trailLength; t++)
Pushes(n, len) == n + n * (len - 1)

\* render() whose trail loop starts at t = 0
Torus_render_ExtraTrail(b, p) ==
    LET three == [t \in TrailLengths |-> b.trails[t] * (3 + 3 * t)]
        one == [t \in TrailLengths |-> b.trails[t] * (1 + t)]
    IN  GLOut(Did(b, <<"clear", "drawElements", "drawArrays">>),
              [p EXCEPT !.drawCalls = @ + 2,
                        !.upload = [positions |-> SumFrom(3, three),
                                    sizes |-> SumFrom(3, one),
                                    alphas |-> SumFrom(3, one),
                                    hues |-> SumFrom(3, one),
                                    count |-> SumFrom(3, three) \div 3]],
              FALSE)

\* TorusBackground.render(): drawElements for the wireframe and drawArrays
\* for the particles; a null program or a -1 location only records a GL
\* error. The arrays take the head and the trail samples of every particle,
\* and positions.length / 3 points are drawn.
Torus_render(b, p) ==
    LET three == [t \in TrailLengths |-> b.trails[t] * Pushes(3, t)]
        one == [t \in TrailLengths |-> b.trails[t] * Pushes(1, t)]
    IN  GLOut(Did(b, <<"clear", "drawElements", "drawArrays">>),
              [p EXCEPT !.drawCalls = @ + 2,
                        !.upload = [positions |-> SumFrom(3, three),
                                    sizes |-> SumFrom(3, one),
                                    alphas |-> SumFrom(3, one),
                                    hues |-> SumFrom(3, one),
                                    count |-> SumFrom(3, three) \div 3]],
              FALSE)

\* animate() of both classes: advance, updateVelocity, update the particles,
\* render, requestAnimationFrame
GL_animate(b, p) ==
    LET b1 == Did(Advance([b EXCEPT !.steps = <<>>]), <<"time", "mouse">>)
        b2 == Did(updateVelocity(b1), <<"updateVelocity">>)
        b3 == Did(b2, <<"updateParticles">>)
        r == IF b.variant = "WebGLBackground" THEN WebGL_render(b3, p)
             ELSE Torus_render(b3, p)
    IN  IF r.threw THEN r
        ELSE GLOut(Did(r.b, <<"requestAnimationFrame">>),
                   [r.p EXCEPT !.rafPending = @ + 1, !.rafCalls = @ + 1], FALSE)

\* WebGLBackground.init()
WebGL_init(b, p) ==
    LET b1 == GL_resize([b EXCEPT !.initRan = TRUE], p)
        r == WebGL_createShaders(b1, p)
    IN  IF r.threw THEN r
        ELSE GL_animate(WebGL_createParticles(r.b), bindEvents(r.p))

\* TorusBackground.init()
Torus_init(b, p) ==
    LET b1 == Torus_createTrafficParticles(GL_resize([b EXCEPT !.initRan = TRUE], p), p)
        r == Torus_createShaders(b1, p)
    IN  IF r.threw THEN r
        ELSE GL_animate(r.b, bindEvents(r.p))

flowFieldSize == 20

\* getFlowAt() that scales the position by the grid size, not by size - 1
getFlowAt_FullScale(x, y, cell) ==
    LET gridX == (x * flowFieldSize) \div Unit
        gridY == (y * flowFieldSize) \div Unit
        idx == gridY * flowFieldSize + gridX
        read == idx >= 0 /\ idx < flowFieldSize * flowFieldSize
    IN  [x |-> x, y |-> y, gridX |-> gridX, gridY |-> gridY, idx |-> idx,
         read |-> read,
         flow |-> IF read THEN [x |-> cell[1], y |-> cell[2]] ELSE [x |-> 0, y |-> 0]]

\* getFlowAt(x, y, time): the grid cell of a position and the vector read
\* there. cell is the vector of flowField[idx] at that time, (cos, sin) of its
\* animated angle times its strength; read is whether flowField[idx] was read.
getFlowAt(x, y, cell) ==
    LET gridX == (x * (flowFieldSize - 1)) \div Unit
        gridY == (y * (flowFieldSize - 1)) \div Unit
        idx == gridY * flowFieldSize + gridX
        read == idx >= 0 /\ idx < flowFieldSize * flowFieldSize
    IN  [x |-> x, y |-> y, gridX |-> gridX, gridY |-> gridY, idx |-> idx,
         read |-> read,
         flow |-> IF read THEN [x |-> cell[1], y |-> cell[2]] ELSE [x |-> 0, y |-> 0]]

\* no wrap at all
Wrap_Missing(c, base) == <<c, base>>

\* The wrap of one coordinate at the end of the loop body of
\* updateParticles(): <<coordinate, base>> after the two tests.
Wrap(c, base) ==
    LET c1 == IF c < -(Unit \div 10) THEN Unit + Unit \div 10 ELSE c
        b1 == IF c < -(Unit \div 10) THEN Unit + Unit \div 10 ELSE base
    IN  IF c1 > Unit + Unit \div 10 THEN <<-(Unit \div 10), -(Unit \div 10)>>
        ELSE <<c1, b1>>

\* The loop body of updateParticles() for one particle. in holds what the
\* body reads besides the particle: speed (this.speedMultiplier), cell (the
\* vector of the flow cell), the values of the four sines / cosines (sinNoise,
\* cosNoise, sinDrift, cosDrift, in units) and of the two Math.random() calls.
updateParticle(q, in) ==
    LET f == getFlowAt(q.x, q.y, in.cell)
        noiseX == Round(in.sinNoise * 25, 1000)
        noiseY == Round(in.cosNoise * 25, 1000)
        flowX == Round(Round(f.flow.x * 8, 10000) * in.speed, Unit)
        flowY == Round(Round(f.flow.y * 8, 10000) * in.speed, Unit)
        driftX == Round(in.sinDrift * 6, 100)
        driftY == Round(in.cosDrift * 6, 100)
        x1 == q.baseX + noiseX + driftX + flowX
        y1 == q.baseY + noiseY + driftY + flowY
        baseX1 == q.baseX + Round(Round((in.randX - Half) * 2, 10000) * in.speed, Unit)
        baseY1 == q.baseY + Round(Round((in.randY - Half) * 2, 10000) * in.speed, Unit)
        wx == Wrap(x1, baseX1)
        wy == Wrap(y1, baseY1)
    IN  [x |-> wx[1], baseX |-> wx[2], y |-> wy[1], baseY |-> wy[2],
         ticks |-> q.ticks + 1]

\* the fields an instance has before its constructor assigns them
Blank(variant) ==
    [variant |-> variant, gl |-> FALSE, initRan |-> FALSE, time |-> 0,
     mouse |-> [x |-> Half, y |-> Half], targetMouse |-> [x |-> Half, y |-> Half],
     scrollY |-> 0, lastScrollY |-> 0, scrollVelocity |-> 0, mouseVelocity |-> 0,
     lastMouseX |-> Half, lastMouseY |-> Half,
     speedMultiplier |-> Unit, targetSpeedMultiplier |-> Unit,
     particleCount |-> 0, particles |-> 0, locations |-> FALSE,
     torusProgram |-> FALSE, particleProgram |-> FALSE,
     trails |-> [t \in TrailLengths |-> 0], steps |-> <<>>,
     canvasWidth |-> 0, canvasHeight |-> 0]

\* a constructor that goes on to init() without a context: resize() guards
\* this.gl, the first call on it in init() throws
Construct_NoContextCheck(b, p) ==
    LET b1 == [b EXCEPT !.gl = p.ctx,
                        !.particleCount =
                            IF b.variant = "WebGLBackground"
                            THEN (IF isMobile(p) THEN 100 ELSE 200)
                            ELSE (IF isMobile(p) THEN 80 ELSE 150)]
    IN  IF ~p.ctx THEN GLOut(GL_resize([b1 EXCEPT !.initRan = TRUE], p), p, TRUE)
        ELSE IF b.variant = "WebGLBackground" THEN WebGL_init(b1, p)
        ELSE Torus_init(b1, p)

\* new WebGLBackground(canvas) / new TorusBackground(canvas)
Construct(b, p) ==
    IF ~p.ctx THEN GLOut(b, LogWarn(p), FALSE)
    ELSE LET b1 == [b EXCEPT !.gl = TRUE,
                             !.particleCount =
                                 IF b.variant = "WebGLBackground"
                                 THEN (IF isMobile(p) THEN 100 ELSE 200)
                                 ELSE (IF isMobile(p) THEN 80 ELSE 150)]
         IN  IF b.variant = "WebGLBackground" THEN WebGL_init(b1, p)
             ELSE Torus_init(b1, p)

\* a pointer listener that moves the smoothed mouse itself
onPointer_WritesMouse(b, x, y) ==
    [b EXCEPT !.targetMouse = [x |-> x, y |-> y], !.mouse = [x |-> x, y |-> y]]

\* the listeners of bindEvents()
onPointer(b, x, y) == [b EXCEPT !.targetMouse = [x |-> x, y |-> y]]
onMouseLeave(b) == [b EXCEPT !.targetMouse = [x |-> Half, y |-> Half]]
onScroll(b, y) == [b EXCEPT !.scrollY = y]

\* ------------------------------------------------- pages and their events
NoBackground == Blank("WebGLBackground")
NoPage ==
    [strict |-> TRUE, ctx |-> TRUE, vs |-> TRUE, fs |-> TRUE, link |-> TRUE,
     vs2 |-> TRUE, fs2 |-> TRUE, link2 |-> TRUE,
     innerWidth |-> 1024, innerHeight |-> 768, devicePixelRatio |-> 1,
     constructed |-> FALSE, listeners |-> {}, rafPending |-> 0, rafCalls |-> 0,
     drawCalls |-> 0, warnings |-> 0, errors |-> 0, threw |-> FALSE,
     seed |-> 0,
     upload |-> [positions |-> 0, sizes |-> 0, alphas |-> 0, hues |-> 0, count |-> 0]]

NoNet == [points |-> <<>>, lines |-> <<>>]

\* createTorusGeometry() about to start: empty arrays, the vertex loop at
\* i = 0. vertices is the length of the vertices array.
NoMesh ==
    [loop |-> "vertices", i |-> 0, vertices |-> 0, indices |-> <<>>,
     torusIndices |-> <<>>, vertexCount |-> 0, indexCount |-> 0]

\* trafficParticles before createTrafficParticles() fills it
NoTraffic ==
    [created |-> FALSE, u |-> 0, v |-> 0, dirU |-> 0, dirV |-> 0, speedVar |-> 0,
     ticks |-> 0]

\* a page just constructed: the Topology took startTime = Date.now() and drew
\* its first frame at once, the WebGL instance ran its first animate()
NewRun == [now |-> 0, startTime |-> 0, ticks |-> 1, topologyTime |-> 0, glTime |-> 1]
NoRuns == [a |-> NewRun, b |-> NewRun]
TopologyIdle ==
    /\ topology = [isRunning |-> FALSE, animationId |-> Null, canvas |-> FALSE,
                   ctx |-> FALSE, width |-> 0, height |-> 0, canvasWidth |-> 0,
                   canvasHeight |-> 0, points |-> 0, draws |-> 0]
    /\ host = [rafQueue |-> {}, rafNext |-> 1, attached |-> FALSE, created |-> FALSE,
               again |-> FALSE,
               rectWidth |-> 0, rectHeight |-> 0, devicePixelRatio |-> 1]
    /\ drew = FALSE
    /\ threw = FALSE
    /\ wasRunning = FALSE
    /\ net = NoNet
    /\ runs = NoRuns
    /\ mesh = NoMesh
    /\ traffic = NoTraffic

NoParticle == [x |-> 0, y |-> 0, baseX |-> 0, baseY |-> 0, ticks |-> 0]
NoLookup == getFlowAt(0, 0, <<0, 0>>)

ParticleIdle ==
    /\ particle = NoParticle
    /\ lookup = NoLookup

ApplyGL(op, o) ==
    /\ bg' = o.b
    /\ page' = [o.p EXCEPT !.threw = o.threw]
    /\ lastOp' = op
    /\ UNCHANGED <<topology, host, drew, threw, wasRunning, particle, lookup, net, runs, mesh, traffic>>

\* DOMContentLoaded: the instance is constructed
Loaded ==
    /\ ~page.constructed
    /\ ApplyGL("construct", Construct(bg, [page EXCEPT !.constructed = TRUE]))

\* the host presents a frame: the pending callback runs animate()
FrameUpTo(maxTicks) ==
    /\ page.rafPending > 0
    /\ bg.time < maxTicks
    /\ ApplyGL("frame", GL_animate(bg, [page EXCEPT !.rafPending = @ - 1]))

\* mousemove, or touchmove with at least one touch, at one of the positions
PointerMove(positions) ==
    /\ {"mousemove", "touchmove"} \cap page.listeners # {}
    /\ \E pos \in positions :
        ApplyGL("pointer", GLOut(onPointer(bg, pos[1], pos[2]), page, FALSE))

\* mouseleave
MouseLeave ==
    /\ "mouseleave" \in page.listeners
    /\ ApplyGL("mouseleave", GLOut(onMouseLeave(bg), page, FALSE))

\* scroll to one of the offsets
Scroll(offsets) ==
    /\ "scroll" \in page.listeners
    /\ \E y \in offsets : ApplyGL("scroll", GLOut(onScroll(bg, y), page, FALSE))

\* the window is resized: resize()
WindowResize ==
    /\ "resize" \in page.listeners
    /\ \E w \in Widths, dpr \in DprSet :
        LET p == [page EXCEPT !.innerWidth = w, !.devicePixelRatio = dpr]
        IN  ApplyGL("resize", GLOut(GL_resize(bg, p), p, FALSE))

\* ---------------------------------------------------------------- SpecGL
\* Construction and life of a WebGL instance on every kind of host.

\* The page before DOMContentLoaded: which class the page loads, what the
\* host's WebGL does (context, compilation and link results, binding style).
\* Results the class never asks for are left TRUE.
InitGL ==
    /\ TopologyIdle
    /\ ParticleIdle
    /\ lastOp = "load"
    /\ \E v \in Variants : bg = Blank(v)
    /\ \E strict, ctx, vs, fs, link, vs2, fs2, link2 \in BOOLEAN, w \in Widths,
          seed \in Seeds :
        /\ (bg.variant = "WebGLBackground") => (vs2 /\ fs2 /\ link2 /\ seed = 0)
        /\ ~ctx => (vs /\ fs /\ link /\ vs2 /\ fs2 /\ link2)
        /\ page = [NoPage EXCEPT !.strict = strict, !.ctx = ctx, !.vs = vs,
                                 !.fs = fs, !.link = link, !.vs2 = vs2,
                                 !.fs2 = fs2, !.link2 = link2, !.innerWidth = w,
                                 !.seed = seed]

GLFrame == FrameUpTo(MaxTicks)
GLPointerMove == PointerMove({<<0, Unit>>})
GLMouseLeave == MouseLeave
GLScroll == Scroll({40})
GLResize == WindowResize

NextGL == Loaded \/ GLFrame \/ GLPointerMove \/ GLMouseLeave \/ GLScroll \/ GLResize

SpecGL == InitGL /\ [][NextGL]_vars

\* --------------------------------------------------------------- SpecVel
\* The speed multiplier of an instance that initialised, under ticks and
\* scroll / pointer events.
VelPointers == {<<0, 0>>, <<Unit, Unit \div 4>>}
VelScrolls == {0, 1, 40}

InitVel ==
    /\ TopologyIdle
    /\ ParticleIdle
    /\ lastOp = "construct"
    /\ \E v \in Variants :
        LET o == Construct(Blank(v), [NoPage EXCEPT !.constructed = TRUE])
        IN  /\ bg = o.b
            /\ page = [o.p EXCEPT !.threw = o.threw]

VelFrame == FrameUpTo(VelMaxTicks)
VelPointerMove == PointerMove(VelPointers)
VelMouseLeave == MouseLeave
VelScroll == Scroll(VelScrolls)

NextVel == VelFrame \/ VelPointerMove \/ VelMouseLeave \/ VelScroll

SpecVel == InitVel /\ [][NextVel]_vars

\* ------------------------------------------------------------- SpecDecay
\* An instance whose multiplier is elevated and whose inputs then stay still:
\* no event arrives, the mouse has reached its target.
ElevatedSpeeds == {2 * Unit, 3 * Unit, 5 * Unit}

InitDecay ==
    /\ TopologyIdle
    /\ ParticleIdle
    /\ lastOp = "construct"
    /\ \E v \in Variants, s \in ElevatedSpeeds :
        LET o == Construct(Blank(v), [NoPage EXCEPT !.constructed = TRUE])
        IN  /\ bg = [o.b EXCEPT !.speedMultiplier = s, !.time = 0]
            /\ page = [o.p EXCEPT !.threw = o.threw]

DecayFrame == FrameUpTo(DecayTicks)

NextDecay == DecayFrame

SpecDecay == InitDecay /\ [][NextDecay]_vars

\* -------------------------------------------------------------- SpecPart
\* One particle of a WebGLBackground under updateParticles().
\* What one call of the loop body may read: the sines and cosines at their
\* extremes, Math.random() at the ends of [0, 1), two cell vectors.
Trigs ==                                     \* <<sinNoise, sinDrift, cosNoise, cosDrift>>
    {<<-Unit, -Unit, -Unit, -Unit>>, <<Unit, Unit, Unit, Unit>>,
     <<-Unit, -Unit, Unit, Unit>>, <<Unit, Unit, -Unit, -Unit>>}
RandPairs == {<<0, Unit - 1>>, <<Unit - 1, 0>>}   \* the two Math.random() of a body
Cells == {<<Unit, 0>>, <<-Unit, 0>>, <<0, Unit>>, <<0, -Unit>>}   \* vectors of a flow cell
PartSpeeds == {Unit, 5 * Unit}               \* this.speedMultiplier

\* createParticles(): x, y, baseX, baseY are Math.random()
InitPart ==
    /\ TopologyIdle
    /\ lastOp = "construct"
    /\ lookup = NoLookup
    /\ page = NoPage
    /\ \E s \in PartSpeeds : bg = [NoBackground EXCEPT !.speedMultiplier = s]
    /\ \E r \in RandPairs :
        particle = [x |-> r[2], y |-> r[1], baseX |-> r[1], baseY |-> r[2], ticks |-> 0]

PartTick ==
    /\ particle.ticks < PartMaxTicks
    /\ \E t \in Trigs, cell \in Cells, r \in RandPairs :
        LET in == [speed |-> bg.speedMultiplier, cell |-> cell,
                   sinNoise |-> t[1], sinDrift |-> t[2], cosNoise |-> t[3],
                   cosDrift |-> t[4], randX |-> r[1], randY |-> r[2]]
        IN  particle' = updateParticle(particle, in)
    /\ lastOp' = "updateParticles"
    /\ UNCHANGED <<topology, host, drew, threw, wasRunning, bg, page, lookup, net, runs, mesh, traffic>>

NextPart == PartTick

SpecPart == InitPart /\ [][NextPart]_vars

\* -------------------------------------------------------------- SpecFlow
\* getFlowAt() on positions of the band [-0.1, 1.1] x [-0.1, 1.1].
Positions ==
    {(i * Unit) \div PosSteps : i \in -(PosSteps \div 10) .. PosSteps + PosSteps \div 10}

InitFlow ==
    /\ TopologyIdle
    /\ ParticleIdle
    /\ lastOp = "construct"
    /\ bg = NoBackground
    /\ page = NoPage

FlowLookup ==
    /\ \E x \in Positions, y \in Positions, cell \in Cells :
        lookup' = getFlowAt(x, y, cell)
    /\ lastOp' = "getFlowAt"
    /\ UNCHANGED <<topology, host, drew, threw, wasRunning, bg, page, particle, net, runs, mesh, traffic>>

NextFlow == FlowLookup

SpecFlow == InitFlow /\ [][NextFlow]_vars

\* --------------------------------------------------------------- SpecNet
\* The points of a Topology and the lines drawConnections() strokes between
\* them, frame after frame.
Coords == {0, 90, 150}
Places == Coords \X Coords

InitNet ==
    /\ topology = [isRunning |-> FALSE, animationId |-> Null, canvas |-> FALSE,
                   ctx |-> FALSE, width |-> 0, height |-> 0, canvasWidth |-> 0,
                   canvasHeight |-> 0, points |-> 0, draws |-> 0]
    /\ host = [rafQueue |-> {}, rafNext |-> 1, attached |-> FALSE, created |-> FALSE,
               again |-> FALSE,
               rectWidth |-> 0, rectHeight |-> 0, devicePixelRatio |-> 1]
    /\ drew = FALSE /\ threw = FALSE /\ wasRunning = FALSE
    /\ ParticleIdle
    /\ bg = NoBackground
    /\ page = NoPage
    /\ lastOp = "createPoints"
    /\ runs = NoRuns
    /\ mesh = NoMesh
    /\ traffic = NoTraffic
    /\ \E n \in 0 .. MaxPoints : \E points \in [1 .. n -> Places] :
          net = [points |-> points, lines |-> <<>>]

\* animate() clears the canvas and updates the points: Point.update() moves
\* one of them
NetUpdate ==
    /\ \E i \in 1 .. Len(net.points), place \in Places :
          net' = [points |-> [net.points EXCEPT ![i] = place], lines |-> <<>>]
    /\ lastOp' = "update"
    /\ UNCHANGED <<topology, host, drew, threw, wasRunning, bg, page, particle, lookup, runs, mesh, traffic>>

\* animate() goes on to drawConnections()
NetDraw ==
    /\ lastOp # "drawConnections"
    /\ net' = [net EXCEPT !.lines = drawConnections(net.points, 1)]
    /\ lastOp' = "drawConnections"
    /\ UNCHANGED <<topology, host, drew, threw, wasRunning, bg, page, particle, lookup, runs, mesh, traffic>>

NextNet == NetUpdate \/ NetDraw

SpecNet == InitNet /\ [][NextNet]_vars

\* ----------------------------------------------------------- SpecTraffic
\* One traffic particle of a TorusBackground under updateTrafficParticles().
\* Angles, directions and speeds are in units.

\* the wrap without the test for a negative angle
WrapAngle_UpperOnly(a) == IF a > TwoPi THEN a - TwoPi ELSE a

\* if (p.u > Math.PI * 2) p.u -= Math.PI * 2; if (p.u < 0) p.u += Math.PI * 2
WrapAngle(a) ==
    LET a1 == IF a > TwoPi THEN a - TwoPi ELSE a
    IN  IF a1 < 0 THEN a1 + TwoPi ELSE a1

\* dir * speed * speedVar, the two factors taken to a thousandth
AngleStep(dir, speed, speedVar) ==
    Round(Round(dir * (speed \div 100), Unit \div 100) * (speedVar \div 100),
          Unit \div 100)

\* The loop body of updateTrafficParticles() for one particle, as far as u,
\* v and the directions go. in holds this.speedMultiplier and the outcome
\* of the Math.random() calls: whether each direction is drawn again, and
\* the directions drawn.
updateTrafficParticle(q, in) ==
    [q EXCEPT !.u = WrapAngle(q.u + AngleStep(q.dirU, in.speed, q.speedVar)),
              !.v = WrapAngle(q.v + AngleStep(q.dirV, in.speed, q.speedVar)),
              !.dirU = IF in.rerouteU THEN in.dirU ELSE @,
              !.dirV = IF in.rerouteV THEN in.dirV ELSE @,
              !.ticks = @ + 1]

\* (Math.random() > 0.5 ? 1 : -1) * (0.01 + Math.random() * 0.03) and
\* (.. ? 1 : -1) * (0.005 + Math.random() * 0.015), at their extremes
\* as <<dirU, dirV>>
DirPairs ==
    {<<-(Unit \div 25), Unit \div 50>>, <<Unit \div 25, -(Unit \div 50)>>,
     <<Unit \div 100, Unit \div 200>>, <<-(Unit \div 100), -(Unit \div 200)>>}
SpeedVars == {Unit \div 2, Unit + Unit \div 2}       \* 0.5 + Math.random() * 1.0
Angles == {0, TwoPi \div 2, TwoPi - 1}               \* Math.random() * Math.PI * 2
TrafficSpeeds == {Unit, 5 * Unit}                    \* this.speedMultiplier

InitTraffic ==
    /\ TopologyIdle
    /\ ParticleIdle
    /\ bg = Blank("TorusBackground")
    /\ page = NoPage
    /\ lastOp = "construct"

\* createTrafficParticles(): the particle is pushed
TrafficCreate ==
    /\ ~traffic.created
    /\ \E u \in Angles, v \in Angles, d \in DirPairs, speedVar \in SpeedVars :
          traffic' = [created |-> TRUE, u |-> u, v |-> v, dirU |-> d[1], dirV |-> d[2],
                      speedVar |-> speedVar, ticks |-> 0]
    /\ lastOp' = "createTrafficParticles"
    /\ UNCHANGED <<topology, host, drew, threw, wasRunning, bg, page, particle, lookup,
                   net, runs, mesh>>

\* updateTrafficParticles() reaches the particle
TrafficTick ==
    /\ traffic.created
    /\ traffic.ticks < TrafficMaxTicks
    /\ \E speed \in TrafficSpeeds, rerouteU, rerouteV \in BOOLEAN, d \in DirPairs :
          traffic' = updateTrafficParticle(traffic,
                        [speed |-> speed, rerouteU |-> rerouteU, rerouteV |-> rerouteV,
                         dirU |-> d[1], dirV |-> d[2]])
    /\ lastOp' = "updateTrafficParticles"
    /\ UNCHANGED <<topology, host, drew, threw, wasRunning, bg, page, particle, lookup,
                   net, runs, mesh>>

NextTraffic == TrafficCreate \/ TrafficTick

SpecTraffic == InitTraffic /\ [][NextTraffic]_vars

\* -------------------------------------------------------------- SpecMesh
\* TorusBackground.createTorusGeometry(), one round of its outer loops at a
\* time.

\* the body of the index loop with a = i * tubes + j
TorusCell_NarrowStride(i, j) ==
    LET a == i * tubes + j
        b == a + tubes + 1
        c == a + 1
    IN  <<a, b, a, c>>

\* the body of the index loop: indices.push(a, b); indices.push(a, c)
TorusCell(i, j) ==
    LET a == i * (tubes + 1) + j
        b == a + tubes + 1
        c == a + 1
    IN  <<a, b, a, c>>

\* new Uint16Array(indices): every element modulo 2^16
Uint16Array(array) == [k \in 1 .. Len(array) |-> array[k] % 65536]

InitMesh ==
    /\ TopologyIdle
    /\ ParticleIdle
    /\ bg = NoBackground
    /\ page = NoPage
    /\ lastOp = "construct"

\* the inner index loop of ring i, for j < tubes, from j on
RECURSIVE TorusRing(_, _)
TorusRing(i, j) ==
    IF j < tubes THEN TorusCell(i, j) \o TorusRing(i, j + 1) ELSE <<>>

\* one round of the outer vertex loop, for i <= segments: the inner loop
\* pushes x, y, z for every j <= tubes; after the last round the index loops
\* start
MeshVertices ==
    /\ mesh.loop = "vertices"
    /\ mesh' = [mesh EXCEPT
                   !.vertices = @ + 3 * (tubes + 1),
                   !.i = IF mesh.i + 1 <= segments THEN mesh.i + 1 ELSE 0,
                   !.loop = IF mesh.i + 1 <= segments THEN "vertices" ELSE "indices"]
    /\ lastOp' = "vertices"
    /\ UNCHANGED <<topology, host, drew, threw, wasRunning, bg, page, particle, lookup,
                   net, runs,
                   traffic>>

\* one round of the outer index loop, for i < segments
MeshIndices ==
    /\ mesh.loop = "indices"
    /\ mesh' = [mesh EXCEPT
                   !.indices = @ \o TorusRing(mesh.i, 0),
                   !.i = IF mesh.i + 1 < segments THEN mesh.i + 1 ELSE 0,
                   !.loop = IF mesh.i + 1 < segments THEN "indices" ELSE "store"]
    /\ lastOp' = "indices"
    /\ UNCHANGED <<topology, host, drew, threw, wasRunning, bg, page, particle, lookup,
                   net, runs,
                   traffic>>

\* the last four statements: the typed arrays and the two counts
MeshStore ==
    /\ mesh.loop = "store"
    /\ mesh' = [mesh EXCEPT !.torusIndices = Uint16Array(mesh.indices),
                            !.vertexCount = mesh.vertices \div 3,
                            !.indexCount = Len(mesh.indices),
                            !.loop = "done"]
    /\ lastOp' = "createTorusGeometry"
    /\ UNCHANGED <<topology, host, drew, threw, wasRunning, bg, page, particle, lookup,
                   net, runs,
                   traffic>>

NextMesh == MeshVertices \/ MeshIndices \/ MeshStore

SpecMesh == InitMesh /\ [][NextMesh]_vars

\* ------------------------------------------------------------- SpecClock
\* Two runs of a page through the same frames. The host presents the frames
\* of each run after delays of its own: a steady 60 Hz, 30 Hz, or the second
\* between frames of a throttled tab.
Delays == {16, 33, 1000}

\* var time = Date.now() - this.startTime, as Topology.animate() hands it to
\* Point.update()
Topology_time(r) == r.now - r.startTime

\* one frame of a run, presented delay milliseconds after the one before:
\* what Topology.animate() and animate() of the WebGL classes take as time
Tick(r, delay) ==
    LET r1 == [r EXCEPT !.now = @ + delay, !.ticks = @ + 1]
    IN  [r1 EXCEPT !.topologyTime = Topology_time(r1),
                   !.glTime = Advance([NoBackground EXCEPT !.time = r.glTime]).time]

InitClock ==
    /\ TopologyIdle
    /\ ParticleIdle
    /\ bg = NoBackground
    /\ page = NoPage
    /\ lastOp = "construct"

ClockTick ==
    /\ runs.a.ticks < ClockMaxTicks
    /\ \E da, db \in Delays : runs' = [a |-> Tick(runs.a, da), b |-> Tick(runs.b, db)]
    /\ lastOp' = "frame"
    /\ UNCHANGED <<topology, host, drew, threw, wasRunning, bg, page, particle, lookup, net, mesh, traffic>>

NextClock == ClockTick

SpecClock == InitClock /\ [][NextClock]_vars

\* ------------------------------------------------------------------ Spec
\* host.again records that the operation was a resize() straight after a
\* resize() that saw the same rectangle and device pixel ratio
Apply(op, o) ==
    /\ topology' = o.t
    /\ host' = [o.h EXCEPT !.again = /\ op = "resize" /\ lastOp = "resize"
                                     /\ o.h.rectWidth = host.rectWidth
                                     /\ o.h.rectHeight = host.rectHeight
                                     /\ o.h.devicePixelRatio = host.devicePixelRatio]
    /\ lastOp' = op
    /\ drew' = o.drew
    /\ threw' = o.threw
    /\ wasRunning' = topology.isRunning
    /\ UNCHANGED <<bg, page, particle, lookup, net, runs, mesh, traffic>>

Init ==
    \E w \in RectSizes, ht \in RectSizes, dpr \in DprSet, draws \in Draws :
        LET o == NewTopology(w, ht, dpr, draws)
        IN  /\ topology = o.t
            /\ host = o.h
            /\ lastOp = "new"
            /\ drew = o.drew
            /\ threw = o.threw
            /\ wasRunning = FALSE
            /\ bg = NoBackground
            /\ page = NoPage
            /\ ParticleIdle
            /\ net = NoNet
            /\ runs = NoRuns
            /\ mesh = NoMesh
            /\ traffic = NoTraffic

\* a caller invokes Topology_start()
Start ==
    /\ host.rafNext <= MaxRafId
    /\ Apply("start", Topology_start(topology, host))

\* a caller invokes Topology_stop()
Stop == Apply("stop", Topology_stop(topology, host))

\* a caller (or the bound resize handler) invokes Topology_resize()
Resize ==
    \E w \in RectSizes, ht \in RectSizes, dpr \in DprSet, draws \in Draws :
        Apply("resize",
              Topology_resize(topology,
                              [host EXCEPT !.rectWidth = w, !.rectHeight = ht,
                                           !.devicePixelRatio = dpr],
                              draws))

\* a caller invokes Topology_destroy()
Destroy == Apply("destroy", Topology_destroy(topology, host))

\* the host presents a frame: a pending callback is taken off the queue and
\* Topology_animate() runs
Frame ==
    /\ host.rafNext <= MaxRafId
    /\ \E id \in host.rafQueue :
        Apply("frame", Topology_animate(topology, [host EXCEPT !.rafQueue = @ \ {id}]))

Next == Start \/ Stop \/ Resize \/ Destroy \/ Frame

Spec == Init /\ [][Next]_vars

\* -------------------------------------------------------------- SpecAll
\* A page with one of the three effects: a Topology, or one of the WebGL
\* classes.
InitAll == Init \/ InitGL

NextAll ==
    \/ host.created /\ Next
    \/ ~host.created /\ NextGL

SpecAll == InitAll /\ [][NextAll]_vars

\* ================================================================ claims

\* C1. stop() on a running topology effect leaves it stopped (isRunning
\* false) with animationId null and the scheduled callback cancelled; a
\* stopped effect has no callback pending, and nothing clears or draws on the
\* canvas from a stopped effect except start().
C1_StopCancels ==
    /\ (lastOp = "stop" /\ wasRunning) =>
           /\ ~topology.isRunning
           /\ topology.animationId = Null
           /\ host.rafQueue = {}
    /\ ~topology.isRunning => host.rafQueue = {}
    /\ (drew /\ ~wasRunning) => lastOp \in {"new", "start"}

C1_Witness ==
    /\ lastOp = "stop"
    /\ wasRunning
    /\ ~topology.isRunning
    /\ topology.canvas

\* C2. Once destroy() has been called the effect is never running again, no
\* animation callback is scheduled and the canvas stays detached.
C2_DestroyTerminal ==
    ~topology.canvas =>
        /\ ~topology.isRunning
        /\ topology.animationId = Null
        /\ host.rafQueue = {}
        /\ ~host.attached

\* C3. start() on an effect that was stopped and not destroyed makes it
\* running, performs a tick and leaves exactly one callback pending, the one
\* animationId names; every tick of a running effect draws and leaves exactly
\* one callback pending again.
C3_StartResumes ==
    /\ (lastOp = "start" /\ ~wasRunning /\ topology.canvas) =>
           /\ topology.isRunning
           /\ drew /\ ~threw
           /\ topology.animationId # Null
           /\ host.rafQueue = {topology.animationId}
    /\ (lastOp = "frame" /\ wasRunning) =>
           /\ topology.isRunning
           /\ drew /\ ~threw
           /\ host.rafQueue = {topology.animationId}

C3_Witness ==
    /\ lastOp = "start"
    /\ ~wasRunning
    /\ topology.canvas
    /\ topology.isRunning
    /\ Cardinality(host.rafQueue) = 1

AllShadersReady ==
    page.vs /\ page.fs /\ page.link /\ page.vs2 /\ page.fs2 /\ page.link2

\* C4. When the host gives no WebGL context the constructor warns once,
\* throws nothing and does nothing else: init() is not run, no listener is
\* registered, no animation callback is ever scheduled, no draw call issued.
C4_DegradedMode ==
    (page.constructed /\ ~page.ctx) =>
        /\ page.warnings = 1
        /\ ~page.threw
        /\ ~bg.gl /\ ~bg.initRan
        /\ page.listeners = {}
        /\ page.rafCalls = 0 /\ page.rafPending = 0
        /\ page.drawCalls = 0

C4_Witness ==
    /\ page.constructed
    /\ ~page.ctx
    /\ page.warnings = 1
    /\ lastOp = "construct"

\* C5. When a shader stage does not compile or a program does not link, the
\* failure is logged and no exception leaves the constructor or a later tick.
C5_FailuresContained ==
    (page.constructed /\ page.ctx /\ ~AllShadersReady) =>
        (page.errors >= 1 /\ ~page.threw)

\* C6. Unless the context, every compilation and every link succeeded, no
\* draw call is ever issued and no animation callback is ever scheduled.
C6_NoRenderWithoutInit ==
    (page.constructed /\ ~(page.ctx /\ AllShadersReady)) =>
        (page.drawCalls = 0 /\ page.rafCalls = 0)

\* C7. After construction and after every tick and every scroll / pointer
\* event, the target multiplier and the live multiplier both lie in [1, 5].
C7_SpeedBounds ==
    /\ Unit <= bg.targetSpeedMultiplier /\ bg.targetSpeedMultiplier <= 5 * Unit
    /\ Unit <= bg.speedMultiplier /\ bg.speedMultiplier <= 5 * Unit

\* a tick saw the capped target 5 (stored after its 0.02 decay) and the live
\* multiplier has risen
C7_Witness ==
    /\ lastOp = "frame"
    /\ bg.targetSpeedMultiplier = 5 * Unit + Round((Unit - 5 * Unit) * 2, 100)
    /\ bg.speedMultiplier > Unit + Half

\* C8. With zero velocity on every tick, the excess of the live multiplier
\* over 1 is multiplied by 0.92 per tick (to the rounding of one unit), never
\* becomes negative, and after DecayTicks ticks is below 0.01.
C8_Decay ==
    [][LET e == bg.speedMultiplier - Unit
           e1 == bg'.speedMultiplier - Unit
       IN  /\ e1 >= 0
           /\ Abs(100 * e1 - 92 * e) <= 50
           /\ bg'.time = DecayTicks => 100 * e1 < Unit]_vars

C8_Witness ==
    /\ bg.time = DecayTicks
    /\ lastOp = "frame"
    /\ bg.speedMultiplier > Unit
    /\ 100 * (bg.speedMultiplier - Unit) < Unit

InBand(c) == -(Unit \div 10) <= c /\ c <= Unit + Unit \div 10

\* C9. After every updateParticles() the particle's x and y lie in
\* [-0.1, 1.1].
C9_PositionBand == InBand(particle.x) /\ InBand(particle.y)

\* x left the band below and was put on the upper edge
C9_Witness ==
    /\ lastOp = "updateParticles"
    /\ particle.x = Unit + Unit \div 10
    /\ particle.baseX = Unit + Unit \div 10

\* C10. For a position in [0, 1] x [0, 1], getFlowAt reads a cell of the flow
\* field: the index gridY * flowFieldSize + gridX is in
\* 0 .. flowFieldSize^2 - 1.
C10_LookupTotal ==
    (/\ lastOp = "getFlowAt"
     /\ 0 <= lookup.x /\ lookup.x <= Unit
     /\ 0 <= lookup.y /\ lookup.y <= Unit) =>
        /\ lookup.read
        /\ lookup.idx = lookup.gridY * flowFieldSize + lookup.gridX
        /\ lookup.idx \in 0 .. flowFieldSize * flowFieldSize - 1

\* the far corner (1, 1) reads the last cell
C10_Witness ==
    /\ lastOp = "getFlowAt"
    /\ lookup.x = Unit /\ lookup.y = Unit
    /\ lookup.read
    /\ lookup.idx = flowFieldSize * flowFieldSize - 1


\* C11: whenever a frame has been drawn, the arrays handed to the GPU have
\* the lengths the draw call assumes. WebGLBackground: two position entries
\* and one size, alpha and hue per particle, for the particleCount points it
\* draws. TorusBackground: one sample per unit of trailLength of every
\* particle, three position entries and one alpha, size and hue per sample,
\* and as many points drawn as there are samples.
Samples == SumFrom(3, [t \in TrailLengths |-> bg.trails[t] * t])

C11_BufferLengths ==
    page.drawCalls > 0 =>
        /\ bg.variant = "WebGLBackground" =>
              /\ page.upload.count = bg.particleCount
              /\ page.upload.positions = 2 * page.upload.count
              /\ page.upload.sizes = page.upload.count
              /\ page.upload.alphas = page.upload.count
              /\ page.upload.hues = page.upload.count
        /\ bg.variant = "TorusBackground" =>
              /\ page.upload.count = Samples
              /\ page.upload.positions = 3 * Samples
              /\ page.upload.sizes = Samples
              /\ page.upload.alphas = Samples
              /\ page.upload.hues = Samples

\* a torus frame drawn with trails of several lengths
C11_Witness ==
    /\ lastOp = "frame"
    /\ bg.variant = "TorusBackground"
    /\ page.drawCalls > 2
    /\ bg.trails[3] > 0 /\ bg.trails[10] > 0
    /\ page.upload.count = Samples
    /\ Samples > 3 * bg.particleCount

\* a second resize() in a row, with the dimensions and the device pixel
\* ratio the first one saw
SameViewport ==
    /\ lastOp = "resize" /\ lastOp' = "resize"
    /\ host'.rectWidth = host.rectWidth
    /\ host'.rectHeight = host.rectHeight
    /\ host'.devicePixelRatio = host.devicePixelRatio
    /\ page'.innerWidth = page.innerWidth
    /\ page'.innerHeight = page.innerHeight
    /\ page'.devicePixelRatio = page.devicePixelRatio

\* C12 as stated: a second resize() in a row with unchanged dimensions and
\* device pixel ratio leaves the geometry and the buffers of every effect as
\* the first one left them: the canvas, the points of the Topology grid, the
\* particles and the mesh of the WebGL classes.
C12_ResizeIdempotent ==
    [][(SameViewport /\ ~threw /\ ~threw') => (topology' = topology /\ bg' = bg)]_vars

\* C12, amended: a second resize() in a row with unchanged dimensions and
\* device pixel ratio leaves the canvas dimensions of every effect, the size
\* of the Topology grid and everything the WebGL classes hold as the first
\* one left them; the points of the Topology grid are drawn afresh.
C12_ResizeIdempotentButPoints ==
    [][(SameViewport /\ ~threw /\ ~threw') =>
           /\ bg' = bg
           /\ [topology' EXCEPT !.draws = 0] = [topology EXCEPT !.draws = 0]]_vars

\* resize() ran twice in a row on a Topology whose element stayed 300 x 300
\* at a device pixel ratio of 2
C12_Witness ==
    /\ lastOp = "resize" /\ host.again /\ ~threw
    /\ topology.points = 16
    /\ topology.canvasWidth = 600 /\ topology.canvasHeight = 600

\* C13: after construction and after every resize() that returns, the
\* Topology holds exactly (ceil(width / spacing) + 1) * (ceil(height / spacing)
\* + 1) points for the width and height it measured, however many it held
\* before: 16 points for an element of 300 x 300 at the spacing of 120. No
\* other operation of a live effect changes the number.
C13_GridSize ==
    (topology.canvas /\ ~(lastOp = "resize" /\ threw)) =>
        /\ topology.points =
               (Ceil(topology.width, spacing) + 1) * (Ceil(topology.height, spacing) + 1)
        /\ topology.width = host.rectWidth /\ topology.height = host.rectHeight
        /\ (topology.width = 300 /\ topology.height = 300) => topology.points = 16

\* a resize() found the element at 300 x 300
C13_Witness ==
    /\ lastOp = "resize" /\ ~threw
    /\ topology.width = 300 /\ topology.height = 300
    /\ topology.points = 16

\* how many of the stroked lines join points i and j, in either order
Strokes(i, j) ==
    Cardinality({k \in 1 .. Len(net.lines) : net.lines[k] \in {<<i, j>>, <<j, i>>}})

\* C14: drawConnections() strokes a line between two different points
\* exactly when their distance is strictly below maxDistance, strokes it
\* once for the unordered pair, and strokes no line from a point to itself.
C14_Connections ==
    lastOp = "drawConnections" =>
        \A i, j \in 1 .. Len(net.points) :
            Strokes(i, j) =
                IF i # j /\ DistSq(net.points[i], net.points[j]) < maxDistance * maxDistance
                THEN 1 ELSE 0

\* three points: the first two exactly maxDistance apart and not joined,
\* the third joined to both
C14_Witness ==
    /\ lastOp = "drawConnections"
    /\ Len(net.points) = 3
    /\ DistSq(net.points[1], net.points[2]) = maxDistance * maxDistance
    /\ net.lines = << <<1, 3>>, <<2, 3>> >>

\* C15: after resize() of any of the three effects the drawing surface is at
\* most twice the logical size in each direction, whatever device pixel
\* ratio the host reports.
C15_DprCap ==
    (lastOp = "resize" /\ ~threw) =>
        /\ topology.canvasWidth <= 2 * topology.width
        /\ topology.canvasHeight <= 2 * topology.height
        /\ bg.canvasWidth <= 2 * page.innerWidth
        /\ bg.canvasHeight <= 2 * page.innerHeight

\* the particle count a class chooses for a window of the given width
CountFor(variant, width) ==
    IF variant = "WebGLBackground"
    THEN (IF width < 768 THEN 100 ELSE 200)
    ELSE (IF width < 768 THEN 80 ELSE 150)

\* C16: the constructor chooses particleCount from the width of the window
\* at that time (100 / 200 for WebGLBackground, 80 / 150 for TorusBackground,
\* below / from 768); once init() has created the particles the array has
\* exactly particleCount elements, and no tick, event or resize, across the
\* 768 breakpoint or not, changes the count or the length of the array.
C16_ParticleCountConstant ==
    [][/\ (lastOp' = "construct" /\ bg'.gl) =>
              bg'.particleCount = CountFor(bg.variant, page.innerWidth)
       /\ ("resize" \in page'.listeners) => bg'.particles = bg'.particleCount
       /\ page.constructed =>
              /\ bg'.particleCount = bg.particleCount
              /\ bg'.particles = bg.particles]_vars

\* an instance built with 200 particles in a wide window, after a resize to
\* a narrow one
C16_Witness ==
    /\ lastOp = "resize"
    /\ page.innerWidth = 320
    /\ bg.particleCount = 200
    /\ bg.particles = 200

\* C17: every animate() call of a WebGL class does, in this order and once
\* each: time + 1, the mouse smoothing, updateVelocity, the particle
\* update, render (the clear, then the draw calls), and one
\* requestAnimationFrame, which comes after the draw.
C17_TickSequence ==
    (lastOp \in {"construct", "frame"} /\ bg.steps # <<>>) =>
        bg.steps = <<"time", "mouse", "updateVelocity", "updateParticles", "clear">>
                   \o (IF bg.variant = "WebGLBackground" THEN <<"drawArrays">>
                       ELSE <<"drawElements", "drawArrays">>)
                   \o <<"requestAnimationFrame">>

\* C17 holds of every instance whose program linked
C17_TickSequenceWhenLinked ==
    (lastOp \in {"construct", "frame"} /\ bg.steps # <<>>
       /\ (bg.variant = "WebGLBackground" => bg.locations)) =>
        bg.steps = <<"time", "mouse", "updateVelocity", "updateParticles", "clear">>
                   \o (IF bg.variant = "WebGLBackground" THEN <<"drawArrays">>
                       ELSE <<"drawElements", "drawArrays">>)
                   \o <<"requestAnimationFrame">>

C19_TwoStage ==
    [][(lastOp' = "frame"
          /\ bg'.scrollVelocity + bg'.mouseVelocity = 0
          /\ bg.targetSpeedMultiplier > Unit) =>
           /\ bg'.targetSpeedMultiplier =
                  bg.targetSpeedMultiplier
                  + Round((Unit - bg.targetSpeedMultiplier) * 2, 100)
           /\ bg'.targetSpeedMultiplier > Unit]_vars

\* C20: for a position whose grid column or row lies outside
\* 0 .. flowFieldSize - 1, getFlowAt reads no cell of the flow field and
\* returns the zero vector.
C20_OutOfBoundsZero ==
    (/\ lastOp = "getFlowAt"
     /\ \/ lookup.gridX \notin 0 .. flowFieldSize - 1
        \/ lookup.gridY \notin 0 .. flowFieldSize - 1) =>
        /\ ~lookup.read
        /\ lookup.flow = [x |-> 0, y |-> 0]

\* C21: the mousemove, touchmove and mouseleave listeners of the WebGL
\* classes assign targetMouse and nothing else, the scroll listener assigns
\* scrollY and nothing else; the smoothed mouse, lastMouseX / lastMouseY /
\* lastScrollY, the two speed multipliers, time and the particles change
\* only in animate(), which leaves targetMouse and scrollY alone and takes
\* them as the listeners last wrote them.
C21_ListenersWriteTargets ==
    [][/\ (lastOp' \in {"pointer", "mouseleave"}) =>
              /\ bg' = [bg EXCEPT !.targetMouse = bg'.targetMouse]
              /\ [page' EXCEPT !.threw = FALSE] = [page EXCEPT !.threw = FALSE]
              /\ particle' = particle
       /\ (lastOp' = "scroll") =>
              /\ bg' = [bg EXCEPT !.scrollY = bg'.scrollY]
              /\ [page' EXCEPT !.threw = FALSE] = [page EXCEPT !.threw = FALSE]
              /\ particle' = particle
       /\ (page.constructed /\ lastOp' # "frame") =>
              /\ bg'.mouse = bg.mouse
              /\ bg'.lastMouseX = bg.lastMouseX /\ bg'.lastMouseY = bg.lastMouseY
              /\ bg'.lastScrollY = bg.lastScrollY
              /\ bg'.speedMultiplier = bg.speedMultiplier
              /\ bg'.targetSpeedMultiplier = bg.targetSpeedMultiplier
              /\ bg'.time = bg.time
              /\ bg'.particles = bg.particles /\ bg'.trails = bg.trails
       /\ (lastOp' = "frame") =>
              /\ bg'.targetMouse = bg.targetMouse /\ bg'.scrollY = bg.scrollY
              /\ bg'.lastScrollY = bg.scrollY
              /\ bg'.mouse.x = bg.mouse.x + Round((bg.targetMouse.x - bg.mouse.x) * 8, 100)
              /\ bg'.mouse.y = bg.mouse.y + Round((bg.targetMouse.y - bg.mouse.y) * 8, 100)]_vars

\* a pointer event between two ticks: the target has moved, the smoothed
\* mouse has not, and an earlier scroll is still waiting for the tick
C21_Witness ==
    /\ lastOp = "pointer"
    /\ bg.time > 1
    /\ bg.targetMouse.x # bg.mouse.x
    /\ bg.lastMouseX = bg.mouse.x
    /\ bg.scrollY # bg.lastScrollY

\* the index of the vertex of ring i and tube position j
VertexAt(i, j) == i * (tubes + 1) + j

\* C22: when createTorusGeometry() has stored its arrays, torusIndices holds
\* 4 * segments * tubes entries: for every cell (i, j) with i < segments and
\* j < tubes, in loop order, the pair from vertex (i, j) to its ring
\* neighbour (i + 1, j) and the pair from vertex (i, j) to its tube neighbour
\* (i, j + 1), and nothing else; every entry is below vertexCount, and the
\* conversion to 16 bits changed none of them. While the loops run, every
\* finished ring has added four entries per cell.
C22_TorusWireframe ==
    /\ mesh.loop = "indices" => Len(mesh.indices) = 4 * mesh.i * tubes
    /\ mesh.loop = "done" =>
          /\ mesh.indexCount = 4 * segments * tubes
          /\ Len(mesh.torusIndices) = mesh.indexCount
          /\ mesh.vertexCount = (segments + 1) * (tubes + 1)
          /\ \A i \in 0 .. segments - 1, j \in 0 .. tubes - 1 :
                LET at == 4 * (i * tubes + j)
                IN  /\ mesh.torusIndices[at + 1] = VertexAt(i, j)
                    /\ mesh.torusIndices[at + 2] = VertexAt(i + 1, j)
                    /\ mesh.torusIndices[at + 3] = VertexAt(i, j)
                    /\ mesh.torusIndices[at + 4] = VertexAt(i, j + 1)
          /\ \A k \in 1 .. mesh.indexCount :
                /\ mesh.torusIndices[k] = mesh.indices[k]
                /\ mesh.torusIndices[k] < mesh.vertexCount
                /\ mesh.torusIndices[k] < 65536

\* the geometry of the page, 64 segments of 32 tubes: the last ring pair
\* ends at vertex (64, 31)
C22_Witness ==
    /\ lastOp = "createTorusGeometry"
    /\ mesh.loop = "done"
    /\ mesh.indexCount = 4 * segments * tubes
    /\ mesh.vertexCount = (segments + 1) * (tubes + 1)
    /\ mesh.torusIndices[mesh.indexCount - 2] = VertexAt(segments, tubes - 1)

\* what C23 says of a Topology that has not been destroyed
OnePendingTopology ==
    /\ (host'.created /\ topology'.canvas) =>
           /\ Cardinality(host'.rafQueue) <= 1
           /\ (host'.rafQueue # {}) <=> topology'.isRunning
    /\ (host.created /\ topology.canvas /\ lastOp' = "start" /\ topology.isRunning) =>
           /\ topology' = topology
           /\ host'.rafQueue = host.rafQueue /\ host'.rafNext = host.rafNext
           /\ ~drew'

\* what C23 says of resize() of the WebGL classes
ResizeSchedulesNothing ==
    (~host.created /\ lastOp' = "resize") =>
        /\ page'.rafPending = page.rafPending
        /\ page'.rafCalls = page.rafCalls

\* C23: a Topology that has not been destroyed has at most one animation
\* callback pending, and one exactly when it is running; start() on a
\* running Topology changes nothing, draws nothing and schedules nothing. A
\* WebGL instance has exactly one callback pending after every animate()
\* call, and resize() schedules none.
C23_OnePending ==
    [][/\ OnePendingTopology
       /\ ResizeSchedulesNothing
       /\ (lastOp' \in {"construct", "frame"} /\ bg'.steps # <<>>) =>
              page'.rafPending = 1]_vars

\* C23 holds of every instance whose program linked
C23_OnePendingWhenLinked ==
    [][/\ OnePendingTopology
       /\ ResizeSchedulesNothing
       /\ (lastOp' \in {"construct", "frame"} /\ bg'.steps # <<>>
             /\ (bg'.variant = "WebGLBackground" => bg'.locations)) =>
              page'.rafPending = 1
       /\ page'.rafPending <= 1]_vars

\* C24: from createTrafficParticles() on and after every
\* updateTrafficParticles(), the angles u and v of a traffic particle are in
\* [0, 2 pi], for every speed multiplier from 1 to 5, every speedVar and
\* every direction the particle is created with or re-routed to.
C24_AngularWrap ==
    traffic.created =>
        /\ 0 <= traffic.u /\ traffic.u <= TwoPi
        /\ 0 <= traffic.v /\ traffic.v <= TwoPi

\* the largest step there is, 0.04 * 5 * 1.5 = 0.3 backwards from u = 0,
\* wrapped to 2 pi - 0.3
C24_Witness ==
    /\ lastOp = "updateTrafficParticles"
    /\ traffic.ticks = 1
    /\ traffic.u = TwoPi - 3 * (Unit \div 10)
    /\ traffic.v = TwoPi - 1 + 3 * (Unit \div 20) - TwoPi
====
